---- MODULE Spec2Model ----
(***************************************************************************)
(* AgriGuard: keyword routing of a farmer's query to one of four agents,   *)
(* parsing of the inference text into a structured record, scoring, and    *)
(* the orchestrator's single-query and batch processing.                   *)
(*                                                                         *)
(* Python strings are TLA+ strings; the operators of the first section     *)
(* compute str.lower, str.strip, str.split, str.replace and the `in`       *)
(* test character by character.  The bullet U+2022 of the source is        *)
(* written "@", a character no input text uses otherwise.                  *)
(***************************************************************************)
EXTENDS Integers, Sequences, FiniteSets, TLC

VARIABLES
    sel_query,          \* _select_best_agent: the query argument
    sel_context,        \* _select_best_agent: the context argument
    best_agent_type,    \* _select_best_agent: the key of the agent returned
    raw_response,       \* _parse_response: the raw inference text
    parse_agent,        \* which _parse_response runs: "base" or "pest"
    parse_context,      \* the context of the agent's process_query
    structured_response,\* what _parse_response returned or raised
    response_type,      \* what _determine_response_type returned
    confidence_level,   \* what _calculate_confidence returned
    built_response,     \* the AgentResponse the agent's process_query built
    farm_context,       \* process_batch_queries: the context argument
    queries,            \* process_batch_queries: the queries argument
    tasks,              \* the process_query task of each query
    response_times,     \* AgriGuardSystem.response_times
    emergency_count,    \* AgriGuardSystem.emergency_count
    overtaken,          \* a task has finished before one submitted earlier
    batch,              \* process_batch_queries: its position and BatchResponse
    stats               \* what get_performance_stats returned or raised

selVars == <<sel_query, sel_context, best_agent_type>>

parseVars == <<raw_response, parse_agent, parse_context, structured_response,
               response_type, confidence_level, built_response>>

orchVars == <<farm_context, queries, tasks, response_times, emergency_count,
              overtaken, batch, stats>>

vars == <<selVars, parseVars, orchVars>>

\* no call of _select_best_agent in progress
SelectIdle ==
    /\ sel_query = ""
    /\ sel_context = [emergency_level |-> 0]
    /\ best_agent_type = "unset"

\* no call of process_batch_queries in progress
OrchestratorIdle ==
    /\ farm_context = [emergency_level |-> 0]
    /\ queries = <<>>
    /\ tasks = <<>>
    /\ response_times = <<>>
    /\ emergency_count = 0
    /\ overtaken = FALSE
    /\ batch = [pc |-> "idle"]
    /\ stats = [kind |-> "pending"]

\* no agent pipeline in progress
ParseIdle ==
    /\ raw_response = ""
    /\ parse_agent = "base"
    /\ parse_context = [emergency_level |-> 0]
    /\ structured_response = [kind |-> "pending"]
    /\ response_type = "unset"
    /\ confidence_level = "unset"
    /\ built_response = [kind |-> "pending"]

----------------------------------------------------------------------------
(* Python str operations                                                   *)

Upper == "ABCDEFGHIJKLMNOPQRSTUVWXYZ"
Lower == "abcdefghijklmnopqrstuvwxyz"

\* str.lower() on one character
LowerChar(c) ==
    IF \E i \in 1..Len(Upper) : SubSeq(Upper, i, i) = c
    THEN LET i == CHOOSE j \in 1..Len(Upper) : SubSeq(Upper, j, j) = c
         IN  SubSeq(Lower, i, i)
    ELSE c

\* str.upper() on one character
UpperChar(c) ==
    IF \E i \in 1..Len(Lower) : SubSeq(Lower, i, i) = c
    THEN LET i == CHOOSE j \in 1..Len(Lower) : SubSeq(Lower, j, j) = c
         IN  SubSeq(Upper, i, i)
    ELSE c

\* s.lower(), halving s to keep the evaluation shallow
RECURSIVE StrLower(_)
StrLower(s) ==
    IF Len(s) = 0 THEN ""
    ELSE IF Len(s) = 1 THEN LowerChar(s)
    ELSE LET h == Len(s) \div 2
         IN  StrLower(SubSeq(s, 1, h)) \o StrLower(SubSeq(s, h + 1, Len(s)))

\* s.upper()
RECURSIVE StrUpper(_)
StrUpper(s) ==
    IF Len(s) = 0 THEN ""
    ELSE IF Len(s) = 1 THEN UpperChar(s)
    ELSE LET h == Len(s) \div 2
         IN  StrUpper(SubSeq(s, 1, h)) \o StrUpper(SubSeq(s, h + 1, Len(s)))

\* k in s
Contains(s, k) ==
    \E i \in 1..(Len(s) - Len(k) + 1) : SubSeq(s, i, i + Len(k) - 1) = k

\* s.startswith(k)
StartsWith(s, k) == Len(s) >= Len(k) /\ SubSeq(s, 1, Len(k)) = k

\* s.find(k) as a 1-based position; 0 when k does not occur
Find(s, k) ==
    IF Contains(s, k)
    THEN CHOOSE i \in 1..(Len(s) - Len(k) + 1) :
            /\ SubSeq(s, i, i + Len(k) - 1) = k
            /\ \A j \in 1..(i - 1) : SubSeq(s, j, j + Len(k) - 1) # k
    ELSE 0

IsSpace(c) == c \in {" ", "\n", "\t", "\r"}

RECURSIVE LStrip(_)
LStrip(s) == IF s # "" /\ IsSpace(Head(s)) THEN LStrip(Tail(s)) ELSE s

RECURSIVE RStrip(_)
RStrip(s) ==
    IF s # "" /\ IsSpace(SubSeq(s, Len(s), Len(s)))
    THEN RStrip(SubSeq(s, 1, Len(s) - 1))
    ELSE s

\* s.strip()
Strip(s) == RStrip(LStrip(s))

\* s.split('\n'): always at least one element, '' for the empty string
RECURSIVE SplitLines(_)
SplitLines(s) ==
    LET p == Find(s, "\n")
    IN  IF p = 0 THEN <<s>>
        ELSE <<SubSeq(s, 1, p - 1)>> \o SplitLines(SubSeq(s, p + 1, Len(s)))

\* s.replace(c, '') for a single character c
RECURSIVE RemoveChar(_, _)
RemoveChar(s, c) ==
    IF Len(s) = 0 THEN ""
    ELSE IF Len(s) = 1 THEN (IF s = c THEN "" ELSE s)
    ELSE LET h == Len(s) \div 2
         IN  RemoveChar(SubSeq(s, 1, h), c) \o RemoveChar(SubSeq(s, h + 1, Len(s)), c)

\* s[:n]
Prefix(s, n) == SubSeq(s, 1, IF Len(s) < n THEN Len(s) ELSE n)

\* xs[:n] for a list
Take(xs, n) == SubSeq(xs, 1, IF Len(xs) < n THEN Len(xs) ELSE n)

\* sum(1 for keyword in keywords if keyword in text)
RECURSIVE CountIn(_, _)
CountIn(keywords, text) ==
    IF keywords = <<>> THEN 0
    ELSE (IF Contains(text, Head(keywords)) THEN 1 ELSE 0)
         + CountIn(Tail(keywords), text)

Min(a, b) == IF a <= b THEN a ELSE b
Max(a, b) == IF a >= b THEN a ELSE b

----------------------------------------------------------------------------
(* Python values decoded from JSON, each tagged with its type              *)

JStr(s)   == [t |-> "str", s |-> s]
JNum(n)   == [t |-> "num", n |-> n]
JBool(b)  == [t |-> "bool", b |-> b]
JNull     == [t |-> "null"]
JList(xs) == [t |-> "list", xs |-> xs]
JDict(d)  == [t |-> "dict", d |-> d]

\* the empty dict {}
EmptyDict == <<>>

\* d[k] = v on a dict
DictSet(d, k, v) == [x \in (DOMAIN d) \cup {k} |-> IF x = k THEN v ELSE d[x]]

\* d.get(k, default)
Get(d, k, default) == IF k \in DOMAIN d THEN d[k] ELSE default

\* {**a, **b}
Merge(a, b) == [x \in (DOMAIN a) \cup (DOMAIN b) |-> IF x \in DOMAIN b THEN b[x] ELSE a[x]]

\* bool(v)
Truthy(v) ==
    CASE v.t = "str"  -> v.s # ""
      [] v.t = "num"  -> v.n # 0
      [] v.t = "bool" -> v.b
      [] v.t = "null" -> FALSE
      [] v.t = "list" -> v.xs # <<>>
      [] v.t = "dict" -> DOMAIN v.d # {}

----------------------------------------------------------------------------
(* json.loads on the texts of this model: objects, arrays, strings with    *)
(* the escapes \" \\ \/ \n \t \r, integers, true, false, null.  The texts  *)
(* hold no fraction or exponent numerals and no \b \f \u escapes.          *)

Digits == "0123456789"

IsDigit(c) == Contains(Digits, c)

DigitVal(c) == Find(Digits, c) - 1

JFail == [ok |-> FALSE, v |-> JNull, rest |-> ""]

JOk(v, rest) == [ok |-> TRUE, v |-> v, rest |-> rest]

RECURSIVE ScanDigits(_, _)
ScanDigits(s, acc) ==
    IF s # "" /\ IsDigit(Head(s))
    THEN ScanDigits(Tail(s), acc * 10 + DigitVal(Head(s)))
    ELSE [n |-> acc, rest |-> s]

\* an integer numeral without sign: 0, or a digit 1-9 and further digits
ScanNatural(s) ==
    IF s = "" \/ ~IsDigit(Head(s)) THEN JFail
    ELSE LET r == IF Head(s) = "0" THEN [n |-> 0, rest |-> Tail(s)]
                  ELSE ScanDigits(s, 0)
         IN  IF r.rest # "" /\ Head(r.rest) \in {".", "e", "E"}
             THEN JFail
             ELSE JOk(JNum(r.n), r.rest)

ScanNumber(s) ==
    IF s # "" /\ Head(s) = "-"
    THEN LET r == ScanNatural(Tail(s))
         IN  IF r.ok THEN JOk(JNum(0 - r.v.n), r.rest) ELSE JFail
    ELSE ScanNatural(s)

EscapeOf(c) ==
    CASE c = "n" -> "\n"
      [] c = "t" -> "\t"
      [] c = "r" -> "\r"
      [] OTHER   -> c

\* a character that ends a run of plain string characters
IsSpecial(c) == c \in {"\"", "\\", "\n", "\t", "\r"}

\* the position of the first such character of s; 0 when there is none
FirstSpecial(s) ==
    IF \E i \in 1..Len(s) : IsSpecial(SubSeq(s, i, i))
    THEN CHOOSE i \in 1..Len(s) :
            /\ IsSpecial(SubSeq(s, i, i))
            /\ \A j \in 1..(i - 1) : ~IsSpecial(SubSeq(s, j, j))
    ELSE 0

\* the characters after an opening quote, up to the closing one: a control
\* character or an unknown escape fails
RECURSIVE ScanString(_, _)
ScanString(s, acc) ==
    LET p == FirstSpecial(s)
    IN  IF p = 0 THEN JFail
        ELSE LET c     == SubSeq(s, p, p)
                 plain == acc \o SubSeq(s, 1, p - 1)
             IN  IF c = "\"" THEN JOk(JStr(plain), SubSeq(s, p + 1, Len(s)))
                 ELSE IF c = "\\"
                      THEN IF /\ Len(s) >= p + 1
                              /\ SubSeq(s, p + 1, p + 1) \in {"\"", "\\", "/", "n", "t", "r"}
                           THEN ScanString(SubSeq(s, p + 2, Len(s)),
                                           plain \o EscapeOf(SubSeq(s, p + 1, p + 1)))
                           ELSE JFail
                 ELSE JFail

RECURSIVE ScanValue(_)
RECURSIVE ScanMembers(_, _)
RECURSIVE ScanElements(_, _)

\* one JSON value at the head of s (no leading whitespace)
ScanValue(s) ==
    IF s = "" THEN JFail
    ELSE LET c == Head(s)
         IN  CASE c = "{" ->
                    LET t == LStrip(Tail(s))
                    IN  IF t # "" /\ Head(t) = "}"
                        THEN JOk(JDict(EmptyDict), Tail(t))
                        ELSE ScanMembers(t, EmptyDict)
               [] c = "[" ->
                    LET t == LStrip(Tail(s))
                    IN  IF t # "" /\ Head(t) = "]"
                        THEN JOk(JList(<<>>), Tail(t))
                        ELSE ScanElements(t, <<>>)
               [] c = "\"" -> ScanString(Tail(s), "")
               [] StartsWith(s, "true")  -> JOk(JBool(TRUE), SubSeq(s, 5, Len(s)))
               [] StartsWith(s, "false") -> JOk(JBool(FALSE), SubSeq(s, 6, Len(s)))
               [] StartsWith(s, "null")  -> JOk(JNull, SubSeq(s, 5, Len(s)))
               [] OTHER -> ScanNumber(s)

\* "key": value pairs up to the closing brace; a repeated key keeps the last
ScanMembers(s, d) ==
    IF s = "" \/ Head(s) # "\"" THEN JFail
    ELSE LET k == ScanString(Tail(s), "")
         IN  IF ~k.ok THEN JFail
             ELSE LET t == LStrip(k.rest)
                  IN  IF t = "" \/ Head(t) # ":" THEN JFail
                      ELSE LET r == ScanValue(LStrip(Tail(t)))
                           IN  IF ~r.ok THEN JFail
                               ELSE LET u  == LStrip(r.rest)
                                        d2 == DictSet(d, k.v.s, r.v)
                                    IN  IF u = "" THEN JFail
                                        ELSE IF Head(u) = "}" THEN JOk(JDict(d2), Tail(u))
                                        ELSE IF Head(u) = "," THEN ScanMembers(LStrip(Tail(u)), d2)
                                        ELSE JFail

\* values up to the closing bracket
ScanElements(s, xs) ==
    LET r == ScanValue(s)
    IN  IF ~r.ok THEN JFail
        ELSE LET u == LStrip(r.rest)
             IN  IF u = "" THEN JFail
                 ELSE IF Head(u) = "]" THEN JOk(JList(Append(xs, r.v)), Tail(u))
                 ELSE IF Head(u) = "," THEN ScanElements(LStrip(Tail(u)), Append(xs, r.v))
                 ELSE JFail

\* json.loads(s): ok is FALSE where json.JSONDecodeError is raised
json_loads(s) ==
    LET r == ScanValue(LStrip(s))
    IN  IF r.ok /\ LStrip(r.rest) = "" THEN [ok |-> TRUE, v |-> r.v]
        ELSE [ok |-> FALSE, v |-> JNull]

----------------------------------------------------------------------------
(* FarmContext                                                             *)

EmergencyLevels == 0..5

Contexts == [emergency_level : EmergencyLevels]

\* FarmContext.is_emergency(): the emergency level is at or above the low
\* threshold
EmergencyStateLevel == 2
is_emergency(context) == context.emergency_level >= EmergencyStateLevel

----------------------------------------------------------------------------
(* AgriGuardSystem._select_best_agent                                      *)

pest_keywords ==
    <<"pest", "insect", "bug", "caterpillar", "aphid", "worm",
      "disease", "fungus", "leaf", "damage", "eating">>

weather_keywords ==
    <<"weather", "rain", "storm", "hail", "wind", "temperature",
      "frost", "drought", "flood", "climate">>

resource_keywords ==
    <<"water", "irrigation", "fertilizer", "nutrient", "soil",
      "efficiency", "cost", "resource", "optimize">>

market_keywords ==
    <<"price", "sell", "market", "buyer", "profit", "income",
      "harvest", "trade", "export">>

\* the keys of self.agents and of scores, in insertion order
AgentTypes == <<"pest", "weather", "resource", "market">>

AgentTypeSet == {AgentTypes[i] : i \in 1..Len(AgentTypes)}

\* the scores dict
Scores(query) ==
    LET query_lower == StrLower(query)
    IN  [k \in AgentTypeSet |->
            CASE k = "pest"     -> CountIn(pest_keywords, query_lower)
              [] k = "weather"  -> CountIn(weather_keywords, query_lower)
              [] k = "resource" -> CountIn(resource_keywords, query_lower)
              [] k = "market"   -> CountIn(market_keywords, query_lower)]

\* max(scores.keys(), key=...): a later key replaces the running maximum
\* only when its score is strictly greater
RECURSIVE MaxKeyFrom(_, _, _)
MaxKeyFrom(scores, i, best) ==
    IF i > Len(AgentTypes) THEN best
    ELSE MaxKeyFrom(scores, i + 1,
                    IF scores[AgentTypes[i]] > scores[best]
                    THEN AgentTypes[i] ELSE best)

MaxKeyLast(scores) ==
    LET RECURSIVE Go(_, _)
        Go(i, best) ==
            IF i > Len(AgentTypes) THEN best
            ELSE Go(i + 1, IF scores[AgentTypes[i]] >= scores[best]
                           THEN AgentTypes[i] ELSE best)
    IN  Go(2, AgentTypes[1])

MaxKey(scores) == MaxKeyFrom(scores, 2, AgentTypes[1])

HighEmergencyLevel == 4

OverrideNever(scores, context) == FALSE

\* the condition of the override for high emergency situations
Override(scores, context) ==
    context.emergency_level >= HighEmergencyLevel /\ scores["pest"] > 0

select_best_agent(query, context) ==
    LET scores == Scores(query)
        best   == MaxKey(scores)
    IN  IF Override(scores, context) THEN "pest" ELSE best

----------------------------------------------------------------------------
(* The queries _select_best_agent is applied to: up to MaxQueryWords words *)
(* of a vocabulary, separated by blanks                                    *)

MaxQueryWords == 2

QueryWords ==
    {"Insects", "damage", "hailstorm", "STORM", "drain", "soil", "price",
     "wheat", "pesticide"}

RECURSIVE QueriesOf(_)
QueriesOf(n) ==
    IF n = 0 THEN {""}
    ELSE LET shorter == QueriesOf(n - 1)
         IN  shorter \cup
             {IF q = "" THEN w ELSE q \o " " \o w : q \in shorter, w \in QueryWords}

Queries ==
    QueriesOf(MaxQueryWords)
        \cup {"small green insects multiplying fast on wheat"}

InitSelect ==
    /\ sel_query \in Queries
    /\ sel_context \in Contexts
    /\ best_agent_type = "unset"
    /\ ParseIdle
    /\ OrchestratorIdle

SelectBestAgent ==
    /\ best_agent_type = "unset"
    /\ best_agent_type' = select_best_agent(sel_query, sel_context)
    /\ UNCHANGED <<sel_query, sel_context, parseVars, orchVars>>

NextSelect == SelectBestAgent

SpecSelect == InitSelect /\ [][NextSelect]_vars

\* the profiles with the highest keyword score
TopScored(scores) ==
    {k \in AgentTypeSet : \A j \in AgentTypeSet : scores[j] <= scores[k]}

\* the earliest of them in the order pest, weather, resource, market
EarliestTopScored(scores) ==
    LET i == CHOOSE n \in 1..Len(AgentTypes) :
                /\ AgentTypes[n] \in TopScored(scores)
                /\ \A m \in 1..(n - 1) : AgentTypes[m] \notin TopScored(scores)
    IN  AgentTypes[i]

\* C4: with the emergency level at 4 or above, a query whose pest score is
\* positive is routed to pest whatever the other scores are; a query whose
\* pest score is 0 is routed as without the override, to the earliest
\* profile of the highest score.
C4_EmergencyOverride ==
    (best_agent_type # "unset" /\ sel_context.emergency_level >= 4) =>
        LET scores == Scores(sel_query)
        IN  /\ scores["pest"] > 0 => best_agent_type = "pest"
            /\ scores["pest"] = 0 => best_agent_type = EarliestTopScored(scores)

\* C4's case: pest is selected although another profile scores strictly higher
C4_Witness ==
    /\ best_agent_type = "pest"
    /\ sel_context.emergency_level >= 4
    /\ Scores(sel_query)["pest"] > 0
    /\ \E k \in AgentTypeSet : Scores(sel_query)[k] > Scores(sel_query)["pest"]

\* C5: when the override does not apply (emergency level below 4, or pest
\* score 0) the selected profile is the earliest, in the order pest, weather,
\* resource, market, of those with the highest keyword score.
C5_MaxScoreFirstDeclared ==
    (/\ best_agent_type # "unset"
     /\ ~(sel_context.emergency_level >= 4 /\ Scores(sel_query)["pest"] > 0)) =>
        best_agent_type = EarliestTopScored(Scores(sel_query))

\* C5's case: two profiles tie for a positive maximum and the earlier wins
C5_Witness ==
    /\ best_agent_type = "weather"
    /\ sel_context.emergency_level < 4
    /\ Scores(sel_query)["weather"] > 0
    /\ Scores(sel_query)["resource"] = Scores(sel_query)["weather"]

----------------------------------------------------------------------------
(* Python's str(), repr() and int() on decoded values                      *)

RECURSIVE NatToStr(_)
NatToStr(n) ==
    IF n < 10 THEN SubSeq(Digits, n + 1, n + 1)
    ELSE NatToStr(n \div 10) \o SubSeq(Digits, (n % 10) + 1, (n % 10) + 1)

IntToStr(n) == IF n < 0 THEN "-" \o NatToStr(0 - n) ELSE NatToStr(n)

RECURSIVE PyRepr(_)
RECURSIVE JoinReprs(_)
RECURSIVE JoinItems(_, _)

\* ', '.join(repr(x) for x in xs)
JoinReprs(xs) ==
    IF xs = <<>> THEN ""
    ELSE IF Len(xs) = 1 THEN PyRepr(xs[1])
    ELSE PyRepr(xs[1]) \o ", " \o JoinReprs(Tail(xs))

\* ', '.join(repr(k) + ': ' + repr(d[k]) for k in keys)
JoinItems(d, keys) ==
    IF keys = {} THEN ""
    ELSE LET k == CHOOSE x \in keys : TRUE
             item == "'" \o k \o "': " \o PyRepr(d[k])
         IN  IF keys = {k} THEN item
             ELSE item \o ", " \o JoinItems(d, keys \ {k})

\* repr(v)
PyRepr(v) ==
    CASE v.t = "str"  -> "'" \o v.s \o "'"
      [] v.t = "num"  -> IntToStr(v.n)
      [] v.t = "bool" -> IF v.b THEN "True" ELSE "False"
      [] v.t = "null" -> "None"
      [] v.t = "list" -> "[" \o JoinReprs(v.xs) \o "]"
      [] v.t = "dict" -> "{" \o JoinItems(v.d, DOMAIN v.d) \o "}"

\* str(v), as an f-string renders v
PyStr(v) == IF v.t = "str" THEN v.s ELSE PyRepr(v)

AllDigits(s) == s # "" /\ \A i \in 1..Len(s) : IsDigit(SubSeq(s, i, i))

\* int(v): a number is kept, a bool is 0 or 1, a str is stripped and read as
\* an optionally signed decimal; anything else raises
PyInt(v) ==
    CASE v.t = "num"  -> [ok |-> TRUE, n |-> v.n, exc |-> ""]
      [] v.t = "bool" -> [ok |-> TRUE, n |-> IF v.b THEN 1 ELSE 0, exc |-> ""]
      [] v.t = "str"  ->
            LET t      == Strip(v.s)
                signed == t # "" /\ Head(t) \in {"+", "-"}
                digits == IF signed THEN Tail(t) ELSE t
            IN  IF AllDigits(digits)
                THEN LET n == ScanDigits(digits, 0).n
                     IN  [ok |-> TRUE, exc |-> "",
                          n |-> IF signed /\ Head(t) = "-" THEN 0 - n ELSE n]
                ELSE [ok |-> FALSE, n |-> 0, exc |-> "ValueError"]
      [] OTHER -> [ok |-> FALSE, n |-> 0, exc |-> "TypeError"]

----------------------------------------------------------------------------
(* What a method returned or raised                                        *)

Returned(d) == [kind |-> "ok", d |-> d]

Raised(exc) == [kind |-> "raise", exc |-> exc]

\* a list of str as a decoded value
StrList(xs) == JList([i \in 1..Len(xs) |-> JStr(xs[i])])

\* any(k in text for k in keywords)
AnyIn(keywords, text) == \E i \in 1..Len(keywords) : Contains(text, keywords[i])

\* [k for k in keywords if k in text]
RECURSIVE Found(_, _)
Found(keywords, text) ==
    IF keywords = <<>> THEN <<>>
    ELSE (IF Contains(text, Head(keywords)) THEN <<Head(keywords)>> ELSE <<>>)
         \o Found(Tail(keywords), text)

----------------------------------------------------------------------------
(* BaseAgent: the response parser                                          *)

Bullet == "@"

action_indicators ==
    <<"immediately", "urgent", "action:", "do:", "apply:", "spray:", "contact:">>

\* the loop of _extract_action_items over the lines
RECURSIVE ActionsOf(_)
ActionsOf(lines) ==
    IF lines = <<>> THEN <<>>
    ELSE LET line   == Strip(Head(lines))
             action == Strip(RemoveChar(RemoveChar(line, Bullet), "-"))
         IN  (IF /\ AnyIn(action_indicators, StrLower(line))
                 /\ action # ""
                 /\ Len(action) > 10
              THEN <<action>> ELSE <<>>)
             \o ActionsOf(Tail(lines))

extract_action_items(text) == Take(ActionsOf(SplitLines(text)), 5)

emergency_keywords ==
    <<"urgent", "immediate", "emergency", "critical", "severe",
      "outbreak", "spreading", "dying", "damage", "loss">>

\* the detection without the cap of the score at 5
detect_uncapped_indicators(text) ==
    LET text_lower      == StrLower(text)
        emergency_score == CountIn(emergency_keywords, text_lower)
    IN  [x \in {"emergency_detected", "emergency_score", "keywords_found"} |->
            CASE x = "emergency_detected" -> JBool(emergency_score > 2)
              [] x = "emergency_score"    -> JNum(emergency_score)
              [] x = "keywords_found"     ->
                    StrList(Found(emergency_keywords, text_lower))]

\* BaseAgent._detect_emergency_indicators
detect_emergency_indicators(text) ==
    LET text_lower      == StrLower(text)
        emergency_score == CountIn(emergency_keywords, text_lower)
    IN  [x \in {"emergency_detected", "emergency_score", "keywords_found"} |->
            CASE x = "emergency_detected" -> JBool(emergency_score > 2)
              [] x = "emergency_score"    -> JNum(Min(5, emergency_score))
              [] x = "keywords_found"     ->
                    StrList(Found(emergency_keywords, text_lower))]

\* summary = lines[0] if lines else "Agricultural advice provided"
FirstLine(raw) ==
    LET lines == SplitLines(Strip(raw))
    IN  IF lines # <<>> THEN lines[1] ELSE "Agricultural advice provided"

\* the fallback of BaseAgent._parse_response: structure the plain text
base_text_response(raw) ==
    [x \in {"summary", "detailed_response", "confidence", "action_items",
            "emergency_indicators"} |->
        CASE x = "summary"              -> JStr(Prefix(FirstLine(raw), 200))
          [] x = "detailed_response"    -> JStr(raw)
          [] x = "confidence"           -> JStr("medium")
          [] x = "action_items"         -> StrList(extract_action_items(raw))
          [] x = "emergency_indicators" ->
                JDict(detect_emergency_indicators(raw))]

\* BaseAgent._parse_response
base_parse_response(raw, context) ==
    LET decoded == json_loads(raw)
    IN  IF StartsWith(Strip(raw), "{") /\ decoded.ok
        THEN Returned(decoded.v.d)
        ELSE Returned(base_text_response(raw))

----------------------------------------------------------------------------
(* PestAgent: the response parser.  In the report template every code      *)
(* point of an emoji is written "#".                                       *)

\* the loop of _format_action_list's join over the items
RECURSIVE BulletLines(_)
BulletLines(items) ==
    IF items = <<>> THEN ""
    ELSE IF Len(items) = 1 THEN Bullet \o " " \o items[1]
    ELSE Bullet \o " " \o items[1] \o "\n" \o BulletLines(Tail(items))

\* the keys of a dict as a list
RECURSIVE KeyList(_)
KeyList(keys) ==
    IF keys = {} THEN <<>>
    ELSE LET k == CHOOSE x \in keys : TRUE
         IN  <<k>> \o KeyList(keys \ {k})

\* PestAgent._format_action_list: iterating a number or True raises
format_action_list(actions) ==
    IF ~Truthy(actions)
    THEN [ok |-> TRUE, s |-> Bullet \o " No specific actions identified"]
    ELSE CASE actions.t = "list" ->
                [ok |-> TRUE,
                 s  |-> BulletLines([i \in 1..Len(actions.xs) |-> PyStr(actions.xs[i])])]
           [] actions.t = "str" ->
                [ok |-> TRUE,
                 s  |-> BulletLines([i \in 1..Len(actions.s) |-> SubSeq(actions.s, i, i)])]
           [] actions.t = "dict" ->
                [ok |-> TRUE, s |-> BulletLines(KeyList(DOMAIN actions.d))]
           [] OTHER -> [ok |-> FALSE, s |-> ""]

\* PestAgent._enhance_pest_response
enhance_pest_response(parsed_data, context) ==
    LET pest_identified == Get(parsed_data, "pest_identified", JStr(""))
        confidence   == Get(parsed_data, "confidence", JStr("medium"))
        threat_level == Get(parsed_data, "threat_level", JNum(3))
        immediate    == format_action_list(
                            Get(parsed_data, "immediate_actions", JList(<<>>)))
        prevention   == format_action_list(
                            Get(parsed_data, "spread_prevention", JList(<<>>)))
        contacts     == format_action_list(
                            Get(parsed_data, "emergency_contacts",
                                StrList(<<"Contact local agriculture extension officer">>)))
        level        == PyInt(threat_level)
        summary ==
            "PEST ALERT: "
            \o PyStr(Get(parsed_data, "pest_identified", JStr("Unknown pest")))
            \o " detected"
        detailed_response ==
            "\nEMERGENCY PEST DETECTION RESULTS:\n\n"
            \o "# PEST IDENTIFIED: "
            \o PyStr(Get(parsed_data, "pest_identified", JStr("Unknown"))) \o "\n"
            \o "# CONFIDENCE: " \o StrUpper(confidence.s) \o "\n"
            \o "## THREAT LEVEL: " \o PyStr(threat_level) \o "/5\n"
            \o "# TREATMENT WINDOW: "
            \o PyStr(Get(parsed_data, "treatment_window", JStr("24 hours"))) \o "\n"
            \o "# CROP LOSS RISK: "
            \o PyStr(Get(parsed_data, "crop_loss_risk", JStr("Unknown"))) \o "\n\n"
            \o "# IMMEDIATE ACTIONS (DO NOW):\n" \o immediate.s \o "\n\n"
            \o "## SPREAD PREVENTION:\n" \o prevention.s \o "\n\n"
            \o "# EMERGENCY CONTACTS:\n" \o contacts.s \o "\n"
        enhancements ==
            [x \in {"summary", "detailed_response", "emergency_indicators"} |->
                CASE x = "summary"           -> JStr(summary)
                  [] x = "detailed_response" -> JStr(detailed_response)
                  [] x = "emergency_indicators" ->
                        JDict([y \in {"emergency_detected", "emergency_score",
                                      "keywords_found"} |->
                            CASE y = "emergency_detected" -> JBool(level.n >= 4)
                              [] y = "emergency_score"    -> JNum(level.n)
                              [] y = "keywords_found"     ->
                                    StrList(<<"pest", "outbreak", "immediate">>)])]
    IN  IF pest_identified.t # "str" THEN Raised("AttributeError")
        ELSE IF confidence.t # "str" THEN Raised("AttributeError")
        ELSE IF ~immediate.ok \/ ~prevention.ok \/ ~contacts.ok THEN Raised("TypeError")
        ELSE IF ~level.ok THEN Raised(level.exc)
        ELSE Returned(Merge(parsed_data, enhancements))

\* line.split(':', 1)[1]
AfterColon(line) == SubSeq(line, Find(line, ":") + 1, Len(line))

\* the loop of _parse_text_response over the lines
RECURSIVE TextScan(_, _, _)
TextScan(lines, pest_identified, actions) ==
    IF lines = <<>> THEN [pest_identified |-> pest_identified, actions |-> actions]
    ELSE LET line       == Head(lines)
             line_lower == StrLower(line)
         IN  IF Contains(line_lower, "pest:") \/ Contains(line_lower, "species:")
             THEN TextScan(Tail(lines), Strip(AfterColon(line)), actions)
             ELSE IF AnyIn(<<"immediate", "urgent", "spray", "apply">>, line_lower)
             THEN TextScan(Tail(lines), pest_identified, Append(actions, Strip(line)))
             ELSE TextScan(Tail(lines), pest_identified, actions)

pest_emergency_keywords ==
    <<"urgent", "immediate", "severe", "spreading", "outbreak">>

\* PestAgent._parse_text_response
parse_text_response(text, context) ==
    LET scan         == TextScan(SplitLines(Strip(text)), "Unknown pest", <<>>)
        threat_level == Min(5, 3 + CountIn(pest_emergency_keywords, StrLower(text)))
    IN  [x \in {"pest_identified", "confidence", "threat_level", "immediate_actions",
                "treatment_window", "crop_loss_risk", "summary", "detailed_response",
                "emergency_indicators"} |->
            CASE x = "pest_identified"   -> JStr(scan.pest_identified)
              [] x = "confidence"        -> JStr("medium")
              [] x = "threat_level"      -> JNum(threat_level)
              [] x = "immediate_actions" -> StrList(Take(scan.actions, 5))
              [] x = "treatment_window"  -> JStr("24 hours")
              [] x = "crop_loss_risk"    ->
                    JStr(IF threat_level >= 4 THEN "High" ELSE "Moderate")
              [] x = "summary"           ->
                    JStr("Pest issue detected: " \o scan.pest_identified)
              [] x = "detailed_response" -> JStr(text)
              [] x = "emergency_indicators" ->
                    JDict([y \in {"emergency_detected", "emergency_score",
                                  "keywords_found"} |->
                        CASE y = "emergency_detected" -> JBool(threat_level >= 4)
                          [] y = "emergency_score"    -> JNum(threat_level)
                          [] y = "keywords_found"     ->
                                StrList(pest_emergency_keywords)])]

\* PestAgent._parse_response
pest_parse_response(raw, context) ==
    IF Contains(raw, "{")
    THEN LET json_part == SubSeq(raw, Find(raw, "{"), Len(raw))
             parsed    == json_loads(json_part)
         IN  IF parsed.ok
             THEN enhance_pest_response(parsed.v.d, context)
             ELSE Returned(parse_text_response(raw, context))
    ELSE Returned(parse_text_response(raw, context))

\* agent._parse_response by the class of the agent
parse_response(agent, raw, context) ==
    IF agent = "pest" THEN pest_parse_response(raw, context)
    ELSE base_parse_response(raw, context)

----------------------------------------------------------------------------
(* BaseAgent: the response category                                        *)

determine_actions_before_warning(structured, context) ==
    LET indicators == Get(structured, "emergency_indicators", JDict(EmptyDict))
        detected   == Get(indicators.d, "emergency_detected", JNull)
        score      == Get(indicators.d, "emergency_score", JNum(0))
    IN  IF is_emergency(context) THEN "EMERGENCY"
        ELSE IF indicators.t # "dict" THEN "raise AttributeError"
        ELSE IF Truthy(detected) THEN "EMERGENCY"
        ELSE IF Truthy(Get(structured, "action_items", JNull)) THEN "ACTION_REQUIRED"
        ELSE IF score.t \notin {"num", "bool"} THEN "raise TypeError"
        ELSE IF score.t = "num" /\ score.n > 1 THEN "WARNING"
        ELSE "ADVISORY"

\* BaseAgent._determine_response_type; a value that has no .get, or that
\* cannot be compared with 1, raises
determine_response_type(structured, context) ==
    LET indicators == Get(structured, "emergency_indicators", JDict(EmptyDict))
        detected   == Get(indicators.d, "emergency_detected", JNull)
        score      == Get(indicators.d, "emergency_score", JNum(0))
    IN  IF is_emergency(context) THEN "EMERGENCY"
        ELSE IF indicators.t # "dict" THEN "raise AttributeError"
        ELSE IF Truthy(detected) THEN "EMERGENCY"
        ELSE IF score.t \notin {"num", "bool"} THEN "raise TypeError"
        ELSE IF score.t = "num" /\ score.n > 1 THEN "WARNING"
        ELSE IF Truthy(Get(structured, "action_items", JNull)) THEN "ACTION_REQUIRED"
        ELSE "ADVISORY"

----------------------------------------------------------------------------
(* BaseAgent: confidence, the AgentResponse and process_query              *)

\* the confidence_score after n additions of 0.1 to 0.7, in hundredths; a
\* sum that IEEE-754 double arithmetic leaves below the decimal value is one
\* less: 0.7, 0.7999999999999999, 0.8999999999999999, 0.9999999999999999
FloatSum(n) ==
    CASE n = 0 -> 70
      [] n = 1 -> 79
      [] n = 2 -> 89
      [] n = 3 -> 99

\* len(v); a number or a bool has none
HasLen(v) == v.t \in {"str", "list", "dict"}

PyLen(v) ==
    CASE v.t = "str"  -> Len(v.s)
      [] v.t = "list" -> Len(v.xs)
      [] v.t = "dict" -> Cardinality(DOMAIN v.d)

\* BaseAgent._calculate_confidence
calculate_confidence(structured) ==
    LET detailed == Get(structured, "detailed_response", JNull)
        long     == Truthy(detailed) /\ PyLen(detailed) > 100
        actions  == Truthy(Get(structured, "action_items", JNull))
        high     == Get(structured, "confidence", JNull) = JStr("high")
        confidence_score ==
            FloatSum((IF long THEN 1 ELSE 0) + (IF actions THEN 1 ELSE 0)
                     + (IF high THEN 1 ELSE 0))
    IN  IF Truthy(detailed) /\ ~HasLen(detailed) THEN "raise TypeError"
        ELSE IF confidence_score >= 90 THEN "VERY_HIGH"
        ELSE IF confidence_score >= 75 THEN "HIGH"
        ELSE IF confidence_score >= 50 THEN "MEDIUM"
        ELSE IF confidence_score >= 25 THEN "LOW"
        ELSE "VERY_LOW"

\* a response no caller has numbered
NoResponseId == <<0, "none">>

\* AgentResponse(...): the fields the constructor is given, and the others at
\* their defaults
AgentResponse(response_id, agent_name, type, summary, detailed_response, confidence) ==
    [response_id        |-> response_id,
     agent_name         |-> agent_name,
     response_type      |-> type,
     summary            |-> summary,
     detailed_response  |-> detailed_response,
     confidence_score   |-> confidence,
     action_items       |-> <<>>,
     is_emergency       |-> FALSE,
     emergency_level    |-> 0,
     escalation_required |-> FALSE,
     immediate_actions  |-> <<>>,
     response_time_ms   |-> 0]

\* AgentResponse.mark_as_emergency(level, escalate)
mark_as_emergency(response, level, escalate) ==
    [response EXCEPT !.is_emergency = TRUE,
                     !.emergency_level = level,
                     !.escalation_required = escalate]

\* the items a for loop or a slice takes from a value
Items(v) ==
    CASE v.t = "list" -> v.xs
      [] v.t = "str"  -> [i \in 1..Len(v.s) |-> JStr(SubSeq(v.s, i, i))]
      [] v.t = "dict" -> LET keys == KeyList(DOMAIN v.d)
                         IN  [i \in 1..Len(keys) |-> JStr(keys[i])]

\* BaseAgent._populate_response_data: the response populated, or the
\* exception raised
populate_response_data(response, structured_data, context) ==
    LET action_items == Get(structured_data, "action_items", JList(<<>>))
        indicators   == Get(structured_data, "emergency_indicators", JDict(EmptyDict))
        detected     == Get(indicators.d, "emergency_detected", JNull)
        score        == Get(indicators.d, "emergency_score", JNum(4))
        with_actions == [response EXCEPT !.action_items = Items(action_items)]
        emergency    == Truthy(detected) \/ is_emergency(context)
        marked ==
            IF emergency
            THEN mark_as_emergency(with_actions,
                    Max(context.emergency_level,
                        IF score.t = "bool" THEN (IF score.b THEN 1 ELSE 0) ELSE score.n),
                    TRUE)
            ELSE with_actions
        populated ==
            IF marked.is_emergency /\ Truthy(action_items)
            THEN [marked EXCEPT !.immediate_actions = Take(Items(action_items), 3)]
            ELSE marked
    IN  IF ~HasLen(action_items) THEN Raised("TypeError")
        ELSE IF indicators.t # "dict" THEN Raised("AttributeError")
        ELSE IF emergency /\ score.t \notin {"num", "bool"} THEN Raised("TypeError")
        ELSE [kind |-> "ok", response |-> populated]

\* self.agent_name of the agent of each type
AgentName(agent) == IF agent = "pest" THEN "emergency_pest_agent" ELSE agent \o "_agent"

\* structured_response.get(key, '')[:200]
Sliced(v, n) ==
    CASE v.t = "str"  -> JStr(Prefix(v.s, n))
      [] v.t = "list" -> JList(Take(v.xs, n))

\* BaseAgent.process_query after _parse_response has returned: the
\* response constructed and populated, or AgentException for what was raised
build_response(agent, structured, context, response_id) ==
    LET type       == determine_response_type(structured, context)
        summary    == Get(structured, "summary", JStr(""))
        confidence == calculate_confidence(structured)
        response   == AgentResponse(response_id, AgentName(agent), type,
                                    Sliced(summary, 200),
                                    Get(structured, "detailed_response", JStr("")),
                                    confidence)
        populated  == populate_response_data(response, structured, context)
    IN  IF StartsWith(type, "raise ")
        THEN Raised("Query processing failed: " \o SubSeq(type, 7, Len(type)))
        ELSE IF summary.t \notin {"str", "list"}
        THEN Raised("Query processing failed: TypeError")
        ELSE IF StartsWith(confidence, "raise ")
        THEN Raised("Query processing failed: " \o SubSeq(confidence, 7, Len(confidence)))
        ELSE IF populated.kind = "raise"
        THEN Raised("Query processing failed: " \o populated.exc)
        ELSE populated

\* BaseAgent.process_query from the completion of the inference call on.
\* The parse result is bound once, as an element of a singleton set.
agent_process_query(agent, raw, context, response_id) ==
    CHOOSE built \in
        {IF parsed.kind = "raise"
         THEN Raised("Query processing failed: " \o parsed.exc)
         ELSE build_response(agent, parsed.d, context, response_id) :
            parsed \in {parse_response(agent, raw, context)}} : TRUE

----------------------------------------------------------------------------
(* The raw inference texts the parsers are applied to: JSON objects, well  *)
(* formed and not, and plain texts of up to MaxLines lines                 *)

MaxLines == 2

TextLines ==
    {"",
     "Urgent: spray immediately.",
     "Crop dying fast, outbreak spreading.",
     "- Apply: neem oil",
     "Pest: aphid",
     "Monitor the field weekly",
     "Severe damage, critical loss."}

RECURSIVE TextsOf(_)
TextsOf(n) ==
    IF n = 1 THEN TextLines
    ELSE LET shorter == TextsOf(n - 1)
         IN  shorter \cup {t \o "\n" \o l : t \in shorter, l \in TextLines}

JsonTexts ==
    {"{}",
     "{\"summary\": \"Apply neem oil\", \"action_items\": [\"Spray: neem oil on all plants\"]}",
     "{\"pest_identified\": \"Aphid\", \"confidence\": \"high\", \"threat_level\": 4, \"immediate_actions\": [\"Spray neem oil\"]}",
     " {\"pest_identified\": \"Aphid\", \"threat_level\": 2}\n",
     "{\"threat_level\": \"high\"}",
     "{\"pest_identified\": null}",
     "{\"pest_identified\": \"Aphid\", \"threat_level\": 4",
     "{not json}",
     "{\"emergency_indicators\": {\"emergency_detected\": true, \"emergency_score\": 3}}",
     "{\"emergency_indicators\": {\"emergency_score\": 2}}",
     "{\"emergency_indicators\": {\"emergency_score\": \"2\"}}",
     "Result: {\"pest_identified\": \"Locust\", \"threat_level\": 5}",
     "{\"confidence\": \"high\", \"action_items\": [\"Spray neem oil on all plants\"]}",
     "{\"action_items\": [\"Spray\"]}",
     "{\"threat_level\": 9}"}

RawTexts ==
    TextsOf(MaxLines) \cup JsonTexts
        \cup {"Urgent: spray immediately. Crop dying fast, outbreak spreading."}

InitParse ==
    /\ raw_response \in RawTexts
    /\ parse_agent \in {"base", "pest"}
    /\ parse_context \in Contexts
    /\ structured_response = [kind |-> "pending"]
    /\ response_type = "unset"
    /\ confidence_level = "unset"
    /\ built_response = [kind |-> "pending"]
    /\ SelectIdle
    /\ OrchestratorIdle

\* process_query: structured_response = await self._parse_response(...)
ParseResponse ==
    /\ structured_response.kind = "pending"
    /\ structured_response' = parse_response(parse_agent, raw_response, parse_context)
    /\ UNCHANGED <<raw_response, parse_agent, parse_context, response_type,
                   confidence_level, built_response, selVars, orchVars>>

\* process_query: response_type=self._determine_response_type(...)
DetermineResponseType ==
    /\ structured_response.kind = "ok"
    /\ response_type = "unset"
    /\ response_type' = determine_response_type(structured_response.d, parse_context)
    /\ UNCHANGED <<raw_response, parse_agent, parse_context, structured_response,
                   confidence_level, built_response, selVars, orchVars>>

\* process_query: confidence_score=self._calculate_confidence(...)
CalculateConfidence ==
    /\ response_type # "unset"
    /\ ~StartsWith(response_type, "raise ")
    /\ confidence_level = "unset"
    /\ confidence_level' = calculate_confidence(structured_response.d)
    /\ UNCHANGED <<raw_response, parse_agent, parse_context, structured_response,
                   response_type, built_response, selVars, orchVars>>

\* process_query: the AgentResponse constructed, then _populate_response_data
BuildResponse ==
    /\ confidence_level # "unset"
    /\ ~StartsWith(confidence_level, "raise ")
    /\ built_response.kind = "pending"
    /\ built_response' = build_response(parse_agent, structured_response.d,
                                        parse_context, NoResponseId)
    /\ UNCHANGED <<raw_response, parse_agent, parse_context, structured_response,
                   response_type, confidence_level, selVars, orchVars>>

NextParse ==
    \/ ParseResponse
    \/ DetermineResponseType
    \/ CalculateConfidence
    \/ BuildResponse

SpecParse == InitParse /\ [][NextParse]_vars

\* the raw text, trimmed, begins with "{" and decodes as JSON
DecodesAsObject(raw) == StartsWith(Strip(raw), "{") /\ json_loads(raw).ok

\* C7: _parse_response of the base parser and of the pest parser returns a
\* structured result for every raw text and raises nothing.
C7_ParserNeverRaises == structured_response.kind # "raise"

\* C8: for a raw text that is not valid JSON, the empty and the blank text
\* included, the structured result has a non-empty summary.
C8_HeuristicSummaryNonEmpty ==
    (structured_response.kind = "ok" /\ ~json_loads(raw_response).ok) =>
        /\ "summary" \in DOMAIN structured_response.d
        /\ structured_response.d["summary"].t = "str"
        /\ structured_response.d["summary"].s # ""

\* the three fields the pest enrichment regenerates
Regenerated == {"summary", "detailed_response", "emergency_indicators"}

\* C9: a raw text that, trimmed, begins with "{" and decodes yields a
\* structured result built from the decoded fields: the decoded object itself
\* in the base parser, the decoded fields with summary, detailed_response and
\* emergency_indicators regenerated in the pest parser; a text beginning
\* with "{" that does not decode yields the heuristic parse of the whole text.
C9_JsonFirst ==
    (structured_response.kind # "pending" /\ StartsWith(Strip(raw_response), "{")) =>
        LET decoded == json_loads(raw_response)
        IN  /\ structured_response.kind = "ok"
            /\ (decoded.ok /\ parse_agent = "base") =>
                    structured_response.d = decoded.v.d
            /\ (decoded.ok /\ parse_agent = "pest") =>
                    /\ DOMAIN structured_response.d = DOMAIN decoded.v.d \cup Regenerated
                    /\ \A k \in DOMAIN decoded.v.d \ Regenerated :
                            structured_response.d[k] = decoded.v.d[k]
                    /\ StartsWith(structured_response.d["summary"].s, "PEST ALERT: ")
            /\ (~decoded.ok /\ parse_agent = "base") =>
                    structured_response.d = base_text_response(raw_response)
            /\ (~decoded.ok /\ parse_agent = "pest") =>
                    structured_response.d = parse_text_response(raw_response, parse_context)

\* a structured result whose emergency indicators and action items, where
\* present, have the types of the data model
WellTyped(structured) ==
    /\ "emergency_indicators" \in DOMAIN structured =>
        LET indicators == structured["emergency_indicators"]
        IN  /\ indicators.t = "dict"
            /\ "emergency_detected" \in DOMAIN indicators.d =>
                    indicators.d["emergency_detected"].t = "bool"
            /\ "emergency_score" \in DOMAIN indicators.d =>
                    indicators.d["emergency_score"].t = "num"
    /\ "action_items" \in DOMAIN structured => structured["action_items"].t = "list"

Flagged(structured) ==
    /\ "emergency_indicators" \in DOMAIN structured
    /\ "emergency_detected" \in DOMAIN structured["emergency_indicators"].d
    /\ structured["emergency_indicators"].d["emergency_detected"].b

EmergencyScore(structured) ==
    IF /\ "emergency_indicators" \in DOMAIN structured
       /\ "emergency_score" \in DOMAIN structured["emergency_indicators"].d
    THEN structured["emergency_indicators"].d["emergency_score"].n
    ELSE 0

HasActionItems(structured) ==
    "action_items" \in DOMAIN structured /\ Len(structured["action_items"].xs) > 0

\* C10: the category is EMERGENCY if the context is in emergency state or the
\* parse flagged emergency_detected; otherwise WARNING if the emergency score
\* exceeds 1; otherwise ACTION_REQUIRED if there is an action item; otherwise
\* ADVISORY.
C10_CategoryPrecedence ==
    (response_type # "unset" /\ WellTyped(structured_response.d)) =>
        LET structured == structured_response.d
        IN  /\ response_type \in {"EMERGENCY", "WARNING", "ACTION_REQUIRED", "ADVISORY"}
            /\ response_type = "EMERGENCY" <=>
                    (is_emergency(parse_context) \/ Flagged(structured))
            /\ response_type = "WARNING" <=>
                    /\ ~(is_emergency(parse_context) \/ Flagged(structured))
                    /\ EmergencyScore(structured) > 1
            /\ response_type = "ACTION_REQUIRED" <=>
                    /\ ~(is_emergency(parse_context) \/ Flagged(structured))
                    /\ EmergencyScore(structured) <= 1
                    /\ HasActionItems(structured)

\* C10's case: a result with an emergency score above 1 and action items, in
\* a context that is not in emergency state, is a WARNING
C10_Witness ==
    /\ response_type = "WARNING"
    /\ ~is_emergency(parse_context)
    /\ HasActionItems(structured_response.d)

\* the detailed text is longer than 100 characters
LongDetail(structured) ==
    /\ "detailed_response" \in DOMAIN structured
    /\ Len(structured["detailed_response"].s) > 100

\* the parse reported confidence 'high'
ReportedHigh(structured) ==
    "confidence" \in DOMAIN structured /\ structured["confidence"] = JStr("high")

\* how many of the three conditions of the confidence score hold
ConditionsHeld(structured) ==
    (IF LongDetail(structured) THEN 1 ELSE 0)
    + (IF HasActionItems(structured) THEN 1 ELSE 0)
    + (IF ReportedHigh(structured) THEN 1 ELSE 0)

\* the detailed text, where present, is a string
TextTyped(structured) ==
    "detailed_response" \in DOMAIN structured => structured["detailed_response"].t = "str"

\* C11: the confidence category is the threshold mapping of 0.7 plus 0.1 for
\* each condition that holds: none gives MEDIUM, exactly one HIGH, exactly
\* two VERY_HIGH, all three VERY_HIGH.
C11_ConfidenceByConditions ==
    (/\ confidence_level # "unset"
     /\ WellTyped(structured_response.d)
     /\ TextTyped(structured_response.d)) =>
        confidence_level =
            CASE ConditionsHeld(structured_response.d) = 0 -> "MEDIUM"
              [] ConditionsHeld(structured_response.d) = 1 -> "HIGH"
              [] ConditionsHeld(structured_response.d) = 2 -> "VERY_HIGH"
              [] ConditionsHeld(structured_response.d) = 3 -> "VERY_HIGH"


\* C12: whenever the context is in emergency state or the parse flagged
\* emergency_detected, the response is marked emergency with escalation
\* requested and its emergency level is the maximum of the context's level
\* and the parser's emergency score, a result without a score included;
\* when neither holds the response is not marked emergency.
C12_EmergencyMarking ==
    (built_response.kind = "ok" /\ WellTyped(structured_response.d)) =>
        LET structured == structured_response.d
            response   == built_response.response
        IN  IF is_emergency(parse_context) \/ Flagged(structured)
            THEN /\ response.is_emergency
                 /\ response.escalation_required
                 /\ response.emergency_level =
                        Max(parse_context.emergency_level, EmergencyScore(structured))
            ELSE ~response.is_emergency


\* the keywords of the fixed set that occur in the lowercased text
KeywordsPresent(text) ==
    {k \in {emergency_keywords[i] : i \in DOMAIN emergency_keywords} :
        Contains(StrLower(text), k)}

UrgentSprayText == "Urgent: spray immediately. Crop dying fast, outbreak spreading."

\* C17: the heuristic detection gives the emergency score min(5, c), c the
\* number of distinct keywords of the fixed set occurring in the lowercased
\* text, and emergency_detected exactly when c > 2; for the text "Urgent:
\* spray immediately. Crop dying fast, outbreak spreading." the score is 5
\* and emergency_detected is true.
C17_HeuristicEmergencyScore ==
    (/\ structured_response.kind = "ok"
     /\ parse_agent = "base"
     /\ ~DecodesAsObject(raw_response)) =>
        LET indicators == structured_response.d["emergency_indicators"].d
            c          == Cardinality(KeywordsPresent(raw_response))
        IN  /\ indicators["emergency_score"] = JNum(Min(5, c))
            /\ indicators["emergency_detected"] = JBool(c > 2)
            /\ raw_response = UrgentSprayText =>
                    /\ indicators["emergency_score"] = JNum(5)
                    /\ indicators["emergency_detected"] = JBool(TRUE)

\* C17 witness: a text with more than five keywords has been parsed
\* heuristically and scored 5
C17_Witness ==
    /\ structured_response.kind = "ok"
    /\ parse_agent = "base"
    /\ ~DecodesAsObject(raw_response)
    /\ Cardinality(KeywordsPresent(raw_response)) > 5
    /\ structured_response.d["emergency_indicators"].d["emergency_score"] = JNum(5)


\* the lines of the text with the markers removed and the blanks trimmed
CleanedLines(text) ==
    LET lines == SplitLines(text)
    IN  [i \in DOMAIN lines |->
            Strip(RemoveChar(RemoveChar(Strip(lines[i]), Bullet), "-"))]

\* the items are some of the lines, in the order of the lines
RECURSIVE InLineOrder(_, _)
InLineOrder(items, lines) ==
    IF items = <<>> THEN TRUE
    ELSE IF lines = <<>> THEN FALSE
    ELSE IF Head(items) = JStr(Head(lines))
         THEN InLineOrder(Tail(items), Tail(lines))
         ELSE InLineOrder(items, Tail(lines))

\* C18: every structured result, of whichever parser path, has a summary of
\* at most 200 characters and at most 5 action items, each at least 10
\* characters long after the removal of the markers and the trimming, in
\* the order of the lines they came from.
C18_ParseResultBounds ==
    structured_response.kind = "ok" =>
        LET structured == structured_response.d
        IN  /\ "summary" \in DOMAIN structured =>
                    /\ structured["summary"].t = "str"
                    /\ Len(structured["summary"].s) <= 200
            /\ "action_items" \in DOMAIN structured =>
                    /\ structured["action_items"].t = "list"
                    /\ Len(structured["action_items"].xs) <= 5
                    /\ \A k \in DOMAIN structured["action_items"].xs :
                            /\ structured["action_items"].xs[k].t = "str"
                            /\ Len(structured["action_items"].xs[k].s) >= 10
            /\ (parse_agent = "base" /\ ~DecodesAsObject(raw_response)) =>
                    InLineOrder(structured["action_items"].xs,
                                CleanedLines(raw_response))

\* C19: the emergency score of every structured result, and with it the
\* emergency level stamped on every response, is within 0..5 on every
\* parser path, the pest JSON path, which takes the score from the decoded
\* threat_level, included.
C19_EmergencyScoreInRange ==
    /\ (structured_response.kind = "ok" /\ WellTyped(structured_response.d)) =>
            EmergencyScore(structured_response.d) \in 0..5
    /\ built_response.kind = "ok" =>
            built_response.response.emergency_level \in 0..5

----------------------------------------------------------------------------
(* AgriGuardSystem: process_query and process_batch_queries.  One call of  *)
(* process_batch_queries runs a task per query; tasks interleave where     *)
(* they await the inference endpoint or the notification service.          *)

\* AgentResponse.calculate_urgency_score: the emergency level first, then
\* the rank of the category, then the confidence
CategoryRank(type) ==
    CASE type \in {"EMERGENCY", "emergency"} -> 3
      [] type = "WARNING"                    -> 2
      [] type = "ACTION_REQUIRED"            -> 1
      [] OTHER                               -> 0

calculate_urgency_score(response) ==
    10 * response.emergency_level
    + 2 * CategoryRank(response.response_type)
    + (IF response.confidence_score \in {"HIGH", "VERY_HIGH"} THEN 1 ELSE 0)

\* settings.max_response_time, in seconds
max_response_time == 5

\* the values (time.time() - start_time) * 1000 takes
ElapsedMs == {400, 6000}

\* agent_type absent (None)
NoAgentType == ""

QueryInfos ==
    {[query |-> "Hailstorm tonight", agent_type |-> NoAgentType],
     [query |-> "insects on wheat", agent_type |-> "pest"],
     [query |-> "price of wheat", agent_type |-> "soil"]}

\* what the inference endpoint answers
InferenceTexts ==
    {"Urgent: spray immediately. Crop dying fast, outbreak spreading.",
     "{\"threat_level\": \"high\"}"}

\* the contexts of the batches: one not in emergency state, one in it
BatchContexts == {[emergency_level |-> 1], [emergency_level |-> 3]}

MaxBatch == 2

\* no response designated
NoPrimary == <<0, "none">>

BatchLevels == {c.emergency_level : c \in BatchContexts}

\* self._select_best_agent(query, context) for each query of the batches
SelectedAgents ==
    [query \in {q.query : q \in QueryInfos} |-> [level \in BatchLevels |->
        select_best_agent(query, [emergency_level |-> level])]]

\* process_query: the agent an agent_type names, or the one selected
resolve_agent(query, agent_type, context) ==
    IF agent_type # NoAgentType THEN agent_type
    ELSE SelectedAgents[query][context.emergency_level]

\* the agents the queries of the batches resolve to
BatchAgents ==
    {resolve_agent(q.query, q.agent_type, c) : q \in QueryInfos, c \in BatchContexts}
        \cap AgentTypeSet

\* response = await agent.process_query(query, context): what each agent
\* builds from each answer of the inference endpoint
AgentResponses ==
    [agent \in BatchAgents |-> [raw \in InferenceTexts |-> [level \in BatchLevels |->
        agent_process_query(agent, raw, [emergency_level |-> level], NoResponseId)]]]

RECURSIVE BatchesOf(_)
BatchesOf(n) ==
    IF n = 0 THEN {<<>>}
    ELSE LET shorter == BatchesOf(n - 1)
         IN  shorter \cup {Append(b, q) : b \in shorter, q \in QueryInfos}

Init ==
    /\ farm_context \in BatchContexts
    /\ queries \in BatchesOf(MaxBatch)
    /\ tasks = <<>>
    /\ response_times = <<>>
    /\ emergency_count = 0
    /\ overtaken = FALSE
    /\ batch = [pc |-> "start", responses |-> <<>>, primary_response |-> NoPrimary]
    /\ stats = [kind |-> "pending"]
    /\ SelectIdle
    /\ ParseIdle

\* process_batch_queries: a task per query, then await asyncio.gather
CreateTasks ==
    /\ batch.pc = "start"
    /\ tasks' = [i \in 1..Len(queries) |->
                    [pc         |-> "created",
                     query      |-> queries[i].query,
                     agent_type |-> queries[i].agent_type,
                     agent      |-> "",
                     computed   |-> [kind |-> "none"],
                     failure    |-> "none",
                     outcome    |-> [kind |-> "pending"]]]
    /\ batch' = [batch EXCEPT !.pc = "gathering"]
    /\ UNCHANGED <<farm_context, queries, response_times, emergency_count, overtaken,
                   stats,
                   selVars, parseVars>>

\* task i finishes: is a task submitted before it still running
Overtakes(i) == overtaken \/ \E j \in 1..(i - 1) : tasks[j].pc # "done"

\* the AgentResponse the except clause of process_query builds.  The time
\* stamped on it is read by nothing and is left out: response_time_ms
\* keeps the value of the constructor.
error_response(i, message) ==
    AgentResponse(<<i, "system">>, "system",
        IF is_emergency(farm_context) THEN "emergency" ELSE "information",
        JStr("System error: " \o message),
        JStr("An error occurred while processing your query: " \o message),
        "low")

\* the classes of the exceptions raised inside process_query
AgriGuardFailures == {"unknown_agent", "prompt", "inference", "pipeline", "timeout"}

\* except AgriGuardException as e: a handler narrower than the one of the
\* source, which lets the failure of the notification service through
ExceptAgriGuardException(i, failure, message) ==
    IF failure \in AgriGuardFailures
    THEN [tasks[i] EXCEPT !.pc = "done", !.failure = failure,
                          !.outcome = [kind |-> "return",
                                       response |-> error_response(i, message)]]
    ELSE [tasks[i] EXCEPT !.pc = "done", !.failure = failure,
                          !.outcome = [kind |-> "raise", exc |-> message]]

\* process_query: except Exception as e, the error response is returned
ExceptException(i, failure, message) ==
    [tasks[i] EXCEPT !.pc = "done", !.failure = failure,
                     !.outcome = [kind |-> "return",
                                  response |-> error_response(i, message)]]

\* process_query: the check of the response time limit, then return response
CheckLimitAndReturn(i, response) ==
    IF is_emergency(farm_context) /\ response.response_time_ms > max_response_time * 1000
    THEN ExceptException(i, "timeout", "Emergency response timeout")
    ELSE [tasks[i] EXCEPT !.pc = "done",
                          !.outcome = [kind |-> "return", response |-> response]]

\* process_query up to the await of the inference call: the agent is
\* resolved and the agent's process_query builds its prompts
StartQuery(i) ==
    /\ i \in 1..Len(tasks)
    /\ tasks[i].pc = "created"
    /\ \E prompt_ok \in BOOLEAN :
       \E agent \in {resolve_agent(tasks[i].query, tasks[i].agent_type, farm_context)} :
       \E next \in {IF agent \notin AgentTypeSet
                    THEN ExceptException(i, "unknown_agent",
                            "Unknown agent type: " \o tasks[i].agent_type)
                    ELSE IF ~prompt_ok
                    THEN ExceptException(i, "prompt", "Query processing failed: prompt")
                    ELSE [tasks[i] EXCEPT !.pc = "awaiting_inference",
                                          !.agent = agent]} :
            /\ agent \notin AgentTypeSet => prompt_ok
            /\ tasks' = [tasks EXCEPT ![i] = next]
            /\ overtaken' = IF next.pc = "done" THEN Overtakes(i) ELSE overtaken
    /\ UNCHANGED <<farm_context, queries, response_times, emergency_count, batch,
                   stats,
                   selVars, parseVars>>

\* the inference call fails: GroqAPIException, wrapped in AgentException by
\* the agent and caught by process_query
InferenceFails(i) ==
    /\ i \in 1..Len(tasks)
    /\ tasks[i].pc = "awaiting_inference"
    /\ tasks' = [tasks EXCEPT ![i] =
                    ExceptException(i, "inference", "Query processing failed: Groq API error")]
    /\ overtaken' = Overtakes(i)
    /\ UNCHANGED <<farm_context, queries, response_times, emergency_count, batch,
                   stats,
                   selVars, parseVars>>

\* a tracking that keeps the sample of the last call alone
keep_last_response_time(times, response_time) == <<response_time>>

\* process_query: self.response_times.append(response_time)
track_response_time(times, response_time) == Append(times, response_time)

\* process_query: if response.is_emergency: self.emergency_count += 1
count_emergency(count, response) ==
    IF response.is_emergency THEN count + 1 ELSE count

\* the inference call answers: the agent builds its response, process_query
\* tracks it and goes on to the emergency handling or to the return
InferenceCompletes(i) ==
    /\ i \in 1..Len(tasks)
    /\ tasks[i].pc = "awaiting_inference"
    /\ \E raw \in InferenceTexts :
       \E built \in {AgentResponses[tasks[i].agent][raw][farm_context.emergency_level]} :
        IF built.kind = "raise"
        THEN /\ tasks' = [tasks EXCEPT ![i] = ExceptException(i, "pipeline", built.exc)]
             /\ overtaken' = Overtakes(i)
             /\ UNCHANGED <<response_times, emergency_count>>
        ELSE
        \E response_time \in ElapsedMs :
        \E response \in {[built.response EXCEPT !.response_id = <<i, "agent">>,
                                                !.response_time_ms = response_time]} :
        \E computed \in {[kind |-> "ok", response |-> response]} :
        \E next \in {IF response.is_emergency /\ response.escalation_required
                     THEN [tasks[i] EXCEPT !.pc = "awaiting_notification",
                                           !.computed = computed]
                     ELSE [CheckLimitAndReturn(i, response) EXCEPT
                                           !.computed = computed]} :
            /\ tasks' = [tasks EXCEPT ![i] = next]
            /\ response_times' = track_response_time(response_times, response_time)
            /\ emergency_count' = count_emergency(emergency_count, response)
            /\ overtaken' = IF next.pc = "done" THEN Overtakes(i) ELSE overtaken
    /\ UNCHANGED <<farm_context, queries, batch, stats,
                   selVars, parseVars>>

\* _handle_emergency_response: send_emergency_alert returns or raises; then
\* the check of the response time limit
NotificationCompletes(i) ==
    /\ i \in 1..Len(tasks)
    /\ tasks[i].pc = "awaiting_notification"
    /\ \E sent \in BOOLEAN :
        tasks' = [tasks EXCEPT ![i] =
                    IF sent
                    THEN CheckLimitAndReturn(i, tasks[i].computed.response)
                    ELSE ExceptException(i, "notification", "notification failed")]
    /\ overtaken' = Overtakes(i)
    /\ UNCHANGED <<farm_context, queries, response_times, emergency_count, batch,
                   stats,
                   selVars, parseVars>>

\* [r for r in responses if isinstance(r, AgentResponse)], in the order of
\* the tasks
RECURSIVE ValidResponses(_)
ValidResponses(outcomes) ==
    IF outcomes = <<>> THEN <<>>
    ELSE (IF Head(outcomes).kind = "return" THEN <<Head(outcomes).response>> ELSE <<>>)
         \o ValidResponses(Tail(outcomes))

RECURSIVE MaxUrgencyFrom(_, _, _)
MaxUrgencyFrom(responses, i, best) ==
    IF i > Len(responses) THEN best
    ELSE MaxUrgencyFrom(responses, i + 1,
            IF calculate_urgency_score(responses[i]) > calculate_urgency_score(best)
            THEN responses[i] ELSE best)

LastMaxUrgency(responses) ==
    LET RECURSIVE Go(_, _)
        Go(i, best) ==
            IF i > Len(responses) THEN best
            ELSE Go(i + 1,
                    IF calculate_urgency_score(responses[i]) >= calculate_urgency_score(best)
                    THEN responses[i] ELSE best)
    IN  Go(2, responses[1])

\* max(valid_responses, key=lambda x: x.calculate_urgency_score())
MaxUrgency(responses) == MaxUrgencyFrom(responses, 2, responses[1])

\* a gather that returns without waiting for the tasks
GatherEarly ==
    /\ batch.pc = "gathering"
    /\ LET responses       == [i \in 1..Len(tasks) |-> tasks[i].outcome]
           valid_responses == ValidResponses(responses)
       IN  batch' = [pc |-> "done",
                     responses |-> valid_responses,
                     primary_response |->
                        IF valid_responses # <<>>
                        THEN MaxUrgency(valid_responses).response_id
                        ELSE NoPrimary]
    /\ UNCHANGED <<farm_context, queries, tasks, response_times, emergency_count,
                   overtaken, stats, selVars, parseVars>>

\* process_batch_queries after asyncio.gather: every task has finished
Gather ==
    /\ batch.pc = "gathering"
    /\ \A i \in 1..Len(tasks) : tasks[i].pc = "done"
    /\ LET responses       == [i \in 1..Len(tasks) |-> tasks[i].outcome]
           valid_responses == ValidResponses(responses)
       IN  batch' = [pc |-> "done",
                     responses |-> valid_responses,
                     primary_response |->
                        IF valid_responses # <<>>
                        THEN MaxUrgency(valid_responses).response_id
                        ELSE NoPrimary]
    /\ UNCHANGED <<farm_context, queries, tasks, response_times, emergency_count,
                   overtaken, stats,
                   selVars, parseVars>>

\* sum(times), min(times), max(times)
RECURSIVE Sum(_)
Sum(times) == IF times = <<>> THEN 0 ELSE Head(times) + Sum(Tail(times))

MinOf(times) == CHOOSE t \in {times[i] : i \in DOMAIN times} :
                    \A i \in DOMAIN times : t <= times[i]

MaxOf(times) == CHOOSE t \in {times[i] : i \in DOMAIN times} :
                    \A i \in DOMAIN times : t >= times[i]

\* round(a / b, digits) and the .1f format of a / b, as an integer count of
\* the last digit kept: a * scale / b rounded to the nearest, a half to even
Rounded(a, b, scale) ==
    LET q == (a * scale) \div b
        r == (a * scale) % b
    IN  IF 2 * r > b \/ (2 * r = b /\ q % 2 = 1) THEN q + 1 ELSE q

\* str(n) of a natural number
RECURSIVE NatStr(_)
NatStr(n) ==
    IF n < 10 THEN SubSeq("0123456789", n + 1, n + 1)
    ELSE NatStr(n \div 10) \o SubSeq("0123456789", (n % 10) + 1, (n % 10) + 1)

\* the statistics get_performance_stats computes after its check of the
\* history; the average is in hundredths of a millisecond
compute_performance_stats(times, count) ==
    IF Len(times) = 0
    THEN Raised("ZeroDivisionError")
    ELSE LET rate == Rounded(count * 100, Len(times), 10)
         IN  Returned(
                [total_queries           |-> Len(times),
                 emergency_count         |-> count,
                 avg_response_time_ms    |-> Rounded(Sum(times), Len(times), 100),
                 fastest_response_ms     |-> MinOf(times),
                 slowest_response_ms     |-> MaxOf(times),
                 sub_second_responses    |-> Cardinality({i \in DOMAIN times : times[i] < 1000}),
                 emergency_response_rate |->
                    NatStr(rate \div 10) \o "." \o NatStr(rate % 10) \o "%"])

\* the statistics computed without the check of the history
stats_without_history_check(times, count) == compute_performance_stats(times, count)

\* AgriGuardSystem.get_performance_stats
get_performance_stats(times, count) ==
    IF times = <<>>
    THEN Returned([status |-> "No queries processed yet"])
    ELSE compute_performance_stats(times, count)

\* the caller of process_batch_queries asks for the statistics once the
\* batch has returned
GetPerformanceStats ==
    /\ batch.pc = "done"
    /\ stats.kind = "pending"
    /\ stats' = get_performance_stats(response_times, emergency_count)
    /\ UNCHANGED <<farm_context, queries, tasks, response_times, emergency_count,
                   overtaken, batch, selVars, parseVars>>

Next ==
    \/ CreateTasks
    \/ \E i \in 1..MaxBatch : StartQuery(i)
    \/ \E i \in 1..MaxBatch : InferenceFails(i)
    \/ \E i \in 1..MaxBatch : InferenceCompletes(i)
    \/ \E i \in 1..MaxBatch : NotificationCompletes(i)
    \/ Gather
    \/ GetPerformanceStats

Spec == Init /\ [][Next]_vars

\* The event loop runs every task that is ready, and every inference call
\* ends, by completing or by failing.  Nothing is assumed of the
\* notification service.
LiveSpec ==
    /\ Init
    /\ [][Next]_vars
    /\ WF_vars(CreateTasks)
    /\ \A i \in 1..MaxBatch : WF_vars(StartQuery(i))
    /\ \A i \in 1..MaxBatch : WF_vars(InferenceCompletes(i) \/ InferenceFails(i))
    /\ WF_vars(Gather)

----------------------------------------------------------------------------
(* Claims about process_query and process_batch_queries, under Spec.       *)

\* C1: process_query never raises to its caller: whatever fails inside the
\* call (an unknown agent type, the prompt build, the inference call, the
\* parse or the scoring, the notification, the response time limit), the
\* call ends by returning an AgentResponse.
C1_ProcessQueryNeverRaises ==
    \A i \in DOMAIN tasks :
        tasks[i].pc = "done" => tasks[i].outcome.kind = "return"

\* C1 witness: a call in which the notification service failed and a call
\* that named an unknown agent type have both ended
C1_Witness ==
    /\ \E i \in DOMAIN tasks :
            tasks[i].pc = "done" /\ tasks[i].failure = "notification"
    /\ \E i \in DOMAIN tasks :
            tasks[i].pc = "done" /\ tasks[i].failure = "unknown_agent"

\* the queries of the batch whose inference call failed
InferenceErrors == {i \in DOMAIN tasks : tasks[i].failure = "inference"}

\* C2: of N queries of which exactly K hit an inference error, the batch
\* response lists exactly N - K responses, and a primary response is set
\* only if N - K > 0.
C2_BatchDropsFailed ==
    batch.pc = "done" =>
        /\ Len(batch.responses) = Len(queries) - Cardinality(InferenceErrors)
        /\ batch.primary_response # NoPrimary =>
                Len(queries) - Cardinality(InferenceErrors) > 0

\* C3: when the context is in emergency state and the measured time of a
\* call exceeds the response time limit, the call still returns the
\* response the agent computed.
C3_SlowEmergencyKeepsResponse ==
    \A i \in DOMAIN tasks :
        (tasks[i].pc = "done" /\ tasks[i].failure = "timeout") =>
            tasks[i].outcome = [kind |-> "return",
                                response |-> tasks[i].computed.response]

\* position k of the list holds a response of the highest urgency score
TopUrgency(responses, k) ==
    \A j \in DOMAIN responses :
        calculate_urgency_score(responses[j]) <= calculate_urgency_score(responses[k])

\* C6: whenever the batch lists a response, the primary response is the one
\* of the highest urgency score, and among those of equal highest score the
\* one submitted first, in whatever order the calls completed.
C6_PrimaryIsFirstMostUrgent ==
    (batch.pc = "done" /\ batch.responses # <<>>) =>
        \E k \in DOMAIN batch.responses :
            /\ batch.primary_response = batch.responses[k].response_id
            /\ TopUrgency(batch.responses, k)
            /\ \A j \in DOMAIN batch.responses :
                    TopUrgency(batch.responses, j) =>
                        /\ k <= j
                        /\ batch.responses[k].response_id[1]
                               <= batch.responses[j].response_id[1]

\* C6 witness: two responses tie for the highest urgency score, and the call
\* submitted second completed before the one submitted first
C6_Witness ==
    /\ batch.pc = "done"
    /\ overtaken
    /\ Len(batch.responses) = 2
    /\ \A k \in 1..2 : batch.responses[k].agent_name # "system"
    /\ calculate_urgency_score(batch.responses[1])
           = calculate_urgency_score(batch.responses[2])
    /\ batch.primary_response = batch.responses[1].response_id

\* C13: a failure of the notification service during the emergency
\* escalation does not mask the response: the caller of process_query still
\* receives the response the selected agent computed, not an error
\* substitute.
C13_NotificationFailureKeepsResponse ==
    \A i \in DOMAIN tasks :
        (tasks[i].pc = "done" /\ tasks[i].failure = "notification") =>
            tasks[i].outcome = [kind |-> "return",
                                response |-> tasks[i].computed.response]

\* the response categories of the data model
ResponseTypes == {"ADVISORY", "ACTION_REQUIRED", "WARNING", "EMERGENCY"}

\* the member of an enumeration a lower-case value names
MemberNamed(value) == StrUpper(value)

\* the texts the except clause puts before the message
SummaryPrefix == "System error: "
DetailPrefix == "An error occurred while processing your query: "

\* C14: the substitute response process_query returns on failure has low
\* confidence, a category that is EMERGENCY when the context is in emergency
\* state and ADVISORY otherwise, always one of the four categories, and a
\* summary and a detailed text that carry the failure message.
C14_SubstituteResponse ==
    \A i \in DOMAIN tasks :
        (tasks[i].pc = "done" /\ tasks[i].failure # "none") =>
            /\ tasks[i].outcome.kind = "return"
            /\ LET response == tasks[i].outcome.response
                   summary  == response.summary.s
                   detail   == response.detailed_response.s
               IN  /\ MemberNamed(response.confidence_score) = "LOW"
                   /\ MemberNamed(response.response_type) \in ResponseTypes
                   /\ MemberNamed(response.response_type) =
                        IF is_emergency(farm_context) THEN "EMERGENCY" ELSE "ADVISORY"
                   /\ StartsWith(summary, SummaryPrefix)
                   /\ StartsWith(detail, DetailPrefix)
                   /\ Len(summary) > Len(SummaryPrefix)
                   /\ SubSeq(summary, Len(SummaryPrefix) + 1, Len(summary))
                        = SubSeq(detail, Len(DetailPrefix) + 1, Len(detail))

\* the number of calls the statistics report: none when no data is reported
ReportedTotal(result) ==
    IF "total_queries" \in DOMAIN result THEN result.total_queries ELSE 0

\* C15: the statistics cover every call of process_query made since the
\* construction: the reported total equals the number of calls made, the
\* calls that ended in an error substitute included.
C15_StatsCountEveryCall ==
    stats.kind = "ok" => ReportedTotal(stats.d) = Len(tasks)

\* C16: with an empty history get_performance_stats returns the no-data
\* result and divides by nothing; with a non-empty history it divides by
\* the length of the history; in no state does it raise a division by zero.
C16_StatsNeverDivideByZero ==
    /\ stats.kind # "raise"
    /\ (stats.kind = "ok" /\ response_times = <<>>) =>
            stats.d = [status |-> "No queries processed yet"]
    /\ (stats.kind = "ok" /\ response_times # <<>>) =>
            /\ stats.d.total_queries = Len(response_times)
            /\ stats.d.total_queries > 0
    /\ get_performance_stats(response_times, emergency_count).kind = "ok"

\* C16 witness: the statistics were asked for after a batch whose every call
\* failed before the tracking step, and the no-data result was returned
C16_Witness ==
    /\ stats.kind = "ok"
    /\ Len(tasks) > 0
    /\ response_times = <<>>
    /\ stats.d = [status |-> "No queries processed yet"]

\* every task of the batch exists before any of them runs
LaunchedBeforeAnyRuns ==
    batch.pc # "start" => Len(tasks) = Len(queries)

\* the batch response is built only after every task has ended
BuiltAfterAllEnded ==
    batch.pc = "done" => \A i \in DOMAIN tasks : tasks[i].pc = "done"

\* a task waiting for the inference endpoint keeps no other task of the
\* batch from taking its next step
NoTaskBlocksAnother ==
    \A i \in DOMAIN tasks : \A j \in DOMAIN tasks \ {i} :
        tasks[i].pc = "awaiting_inference" =>
            /\ tasks[j].pc = "created" => ENABLED StartQuery(j)
            /\ tasks[j].pc = "awaiting_inference" => ENABLED InferenceCompletes(j)
            /\ tasks[j].pc = "awaiting_notification" => ENABLED NotificationCompletes(j)

\* task i waits for the notification service
AwaitsNotification(i) ==
    i \in DOMAIN tasks /\ tasks[i].pc = "awaiting_notification"

\* C20: process_batch_queries launches every call before it waits for any,
\* builds the batch response only after every call has ended, is never
\* blocked in one call by another's wait for the inference endpoint, and
\* eventually returns whenever every inference call ends.
C20_BatchEventuallyReturns ==
    /\ [](LaunchedBeforeAnyRuns /\ BuiltAfterAllEnded /\ NoTaskBlocksAnother)
    /\ <>(batch.pc = "done")

\* C20 as the code has it: the batch eventually returns whenever every
\* inference call ends and every call of the notification service ends too.
C20_BatchReturnsIfNotified ==
    /\ [](LaunchedBeforeAnyRuns /\ BuiltAfterAllEnded /\ NoTaskBlocksAnother)
    /\ (\A i \in 1..MaxBatch : []<>(~AwaitsNotification(i)))
            => <>(batch.pc = "done")

\* C20 witness: the batch has returned, one of its calls went through the
\* emergency notification, and a call submitted later ended before one
\* submitted earlier
C20_Witness ==
    /\ batch.pc = "done"
    /\ overtaken
    /\ \E i \in DOMAIN tasks :
            /\ tasks[i].computed.kind = "ok"
            /\ tasks[i].computed.response.escalation_required

\* the calls that have passed the tracking step of process_query
Tracked == {i \in DOMAIN tasks : tasks[i].computed.kind = "ok"}

\* the history holds each time as often as tracked calls measured it
OneSamplePerTrackedCall ==
    /\ Len(response_times) = Cardinality(Tracked)
    /\ \A k \in DOMAIN response_times :
            Cardinality({j \in DOMAIN response_times :
                            response_times[j] = response_times[k]})
            = Cardinality({i \in Tracked :
                            tasks[i].computed.response.response_time_ms
                                = response_times[k]})

\* the counter counts the tracked calls whose response is flagged emergency
CounterMatchesEmergencies ==
    emergency_count =
        Cardinality({i \in Tracked : tasks[i].computed.response.is_emergency})

\* the history keeps what it held and the counter does not fall
StatisticsOnlyGrow ==
    /\ Len(response_times') >= Len(response_times)
    /\ SubSeq(response_times', 1, Len(response_times)) = response_times
    /\ emergency_count' >= emergency_count

\* C21: under every interleaving of the process_query calls running on one
\* orchestrator no update of the shared statistics is lost and nothing is
\* removed: the history holds exactly one sample per call that has passed
\* the tracking step, the emergency counter equals the number of those calls
\* whose response was flagged emergency, so the counter never exceeds the
\* number of samples, and both only grow.
C21_StatisticsKeepEveryUpdate ==
    /\ [](/\ OneSamplePerTrackedCall
          /\ CounterMatchesEmergencies
          /\ emergency_count <= Len(response_times))
    /\ [][StatisticsOnlyGrow]_vars

\* C21 witness: a call submitted later was tracked while an earlier call,
\* tracked and counted as an emergency, was still suspended inside
\* process_query, and the history holds the samples of both
C21_Witness ==
    /\ Len(response_times) >= 2
    /\ emergency_count >= 1
    /\ \E i \in Tracked : \E j \in Tracked :
            /\ i < j
            /\ tasks[i].pc = "awaiting_notification"
            /\ tasks[j].pc = "done"

====
